---- MODULE Spec2Model ----
(***************************************************************************)
(* A model of generate_book.py: BookBuilder.build and the generator        *)
(* _expand_pages it drives, the text source resolver                       *)
(* (_resolve_text_reference, _coerce_text_source, _text_from_library),     *)
(* the text library loader and the post-pass (page image export,           *)
(* manuscript, missing-images report).                                     *)
(*                                                                         *)
(* Python strings are sequences of one-character strings, so that          *)
(* startswith, partition, strip, lower and split are computed, not         *)
(* assumed. YAML/JSON values are tagged records (field t).                 *)
(***************************************************************************)
EXTENDS Integers, Sequences, FiniteSets, TLC

VARIABLES
    raw_pages,          \* self.raw.get("pages", [])
    text_library,       \* self.text_library
    library_pages,      \* self.library_pages
    text_regions,       \* self.text_regions, in insertion order
    output_image_dir,   \* self.output_image_dir is set (image export enabled)
    manuscript_path,    \* self.manuscript_path is set (manuscript enabled)
    missing_images,     \* self.missing_images: slug -> image path
    total_pages,        \* self.total_pages
    pages_with_images,  \* self.pages_with_images
    word_count,         \* self.word_count
    manuscript_entries, \* self.manuscript_entries
    gen,                \* the frame of the generator _expand_pages
    page,               \* the PageSpec the for loop of build holds
    emitted,            \* every PageSpec the generator has yielded, in order
    canvas,             \* the pages drawn on the reportlab canvas so far
    output_pdf,         \* the document on disk: NoFile until c.save()
    image_files,        \* the rasterized page images on disk
    manuscript_file,    \* the manuscript on disk: NoFile until written
    console,            \* what build has printed
    error,              \* the exception that left build, or "none"
    pc                  \* where build stands

vars == <<raw_pages, text_library, library_pages, text_regions,
          output_image_dir, manuscript_path, missing_images, total_pages,
          pages_with_images, word_count, manuscript_entries, gen, page,
          emitted, canvas, output_pdf, image_files, manuscript_file,
          console, error, pc>>

-----------------------------------------------------------------------------
(* Bounds of the model *)

\* the longest page list the initial states draw
MaxBlocks == 3

\* the deepest chain of resolver calls before Python raises RecursionError
\* (sys.getrecursionlimit(), scaled down; deeper than any acyclic reference
\* of the inputs)
RecursionLimit == 12

\* the span of the block whose text reference SpecText resolves, so that
\* index runs from 0 to TestSpan - 1
TestSpan == 3

-----------------------------------------------------------------------------
(* Python values *)

None == [t |-> "none"]
Str(s) == [t |-> "str", s |-> s]
Num(n) == [t |-> "int", n |-> n]
List(items) == [t |-> "list", items |-> items]
Dict(m) == [t |-> "dict", m |-> m]

EmptyDict == [k \in {} |-> None]

\* dict.get(key, default) on a mapping held as a function
Get(d, key, default) == IF key \in DOMAIN d THEN d[key] ELSE default

\* bool(value)
Truthy(v) ==
    CASE v.t = "none" -> FALSE
      [] v.t = "str"  -> v.s # <<>>
      [] v.t = "int"  -> v.n # 0
      [] v.t = "list" -> v.items # <<>>
      [] v.t = "dict" -> DOMAIN v.m # {}

Digits == <<"0", "1", "2", "3", "4", "5", "6", "7", "8", "9">>

RECURSIVE IntStr(_)
IntStr(n) ==
    IF n < 0 THEN <<"-">> \o IntStr(-n)
    ELSE IF n < 10 THEN <<Digits[n + 1]>>
    ELSE IntStr(n \div 10) \o <<Digits[(n % 10) + 1]>>

\* str(value), for the scalars a reference can hold
PyStr(v) ==
    CASE v.t = "str"  -> v.s
      [] v.t = "int"  -> IntStr(v.n)
      [] v.t = "none" -> <<"N", "o", "n", "e">>

-----------------------------------------------------------------------------
(* Python string methods *)

Whitespace == {" ", "\n", "\t"}

UpperCase == <<"A", "B", "C", "D", "E", "F", "G", "H", "I", "J", "K", "L", "M",
               "N", "O", "P", "Q", "R", "S", "T", "U", "V", "W", "X", "Y", "Z">>
LowerCase == <<"a", "b", "c", "d", "e", "f", "g", "h", "i", "j", "k", "l", "m",
               "n", "o", "p", "q", "r", "s", "t", "u", "v", "w", "x", "y", "z">>

LowerChar(c) ==
    IF \E i \in 1..26 : UpperCase[i] = c
    THEN LowerCase[CHOOSE i \in 1..26 : UpperCase[i] = c]
    ELSE c

\* s.lower()
Lower(s) == [i \in 1..Len(s) |-> LowerChar(s[i])]

\* s.strip()
Strip(s) ==
    LET keep == {i \in 1..Len(s) : s[i] \notin Whitespace}
    IN  IF keep = {} THEN <<>>
        ELSE LET lo == CHOOSE i \in keep : \A j \in keep : i <= j
                 hi == CHOOSE i \in keep : \A j \in keep : j <= i
             IN  SubSeq(s, lo, hi)

\* the length of s where the number of its words is asked for
WordCount_Chars(s) == Len(s)

\* len(s.split()): the maximal runs of non-whitespace
WordCount(s) ==
    Cardinality({i \in 1..Len(s) :
                    /\ s[i] \notin Whitespace
                    /\ (i = 1 \/ s[i - 1] \in Whitespace)})

\* s.startswith(prefix)
StartsWith(s, prefix) ==
    /\ Len(s) >= Len(prefix)
    /\ SubSeq(s, 1, Len(prefix)) = prefix

\* s.rpartition(":")[2]: what follows the last colon
AfterColon_Last(s) ==
    LET colons == {i \in 1..Len(s) : s[i] = ":"}
    IN  IF colons = {} THEN <<>>
        ELSE LET last == CHOOSE i \in colons : \A j \in colons : j <= i
             IN  SubSeq(s, last + 1, Len(s))

\* s.partition(":")[2]: what follows the first colon, "" when there is none
AfterColon(s) ==
    LET colons == {i \in 1..Len(s) : s[i] = ":"}
    IN  IF colons = {} THEN <<>>
        ELSE LET first == CHOOSE i \in colons : \A j \in colons : i <= j
             IN  SubSeq(s, first + 1, Len(s))

AtLibrary == <<"@", "l", "i", "b", "r", "a", "r", "y">>

-----------------------------------------------------------------------------
(* TextSource, and the two other outcomes of a resolution *)

TextSource(mode, value) == [mode |-> mode, value |-> value]

\* the resolver's return value None
NoText == [mode |-> "none", value |-> <<>>]

\* the resolver did not return: Python's RecursionError left it
RecursionError == [mode |-> "RecursionError", value |-> <<>>]

\* spread_side = None
NoSide == "none"

-----------------------------------------------------------------------------
(* The text source resolver *)

RECURSIVE _coerce_text_source(_, _, _, _, _, _, _)
RECURSIVE _text_from_library(_, _, _, _, _)

\* the key of a {library: ...} mapping: str(value["library"] or page_slug)
MappingLibraryKey(v, page_slug) ==
    IF Truthy(v) THEN PyStr(v) ELSE page_slug

\* the key of an "@library[:key]" string: key or page_slug
StringLibraryKey(s, page_slug) ==
    IF AfterColon(s) # <<>> THEN AfterColon(s) ELSE page_slug

\* an index past the end wraps around instead of clamping
ListTarget_Wrap(items, index) == items[(index % Len(items)) + 1]

\* the element of a non-empty list that index selects
ListTarget(items, index) ==
    IF index < Len(items) THEN items[index + 1] ELSE items[Len(items)]

\* a directional mapping with no entry for the side falls back to any entry
DirectionalCandidate_AnySide(m, spread_side) ==
    IF spread_side # NoSide /\ spread_side \in DOMAIN m THEN m[spread_side]
    ELSE IF "default" \in DOMAIN m THEN m["default"]
    ELSE IF "left" \in DOMAIN m THEN m["left"]
    ELSE m["right"]

\* a candidate taken from "default" before the side of the page is looked at
DirectionalCandidate_DefaultFirst(m, spread_side) ==
    IF "default" \in DOMAIN m THEN m["default"]
    ELSE IF spread_side # NoSide /\ spread_side \in DOMAIN m THEN m[spread_side]
    ELSE None

\* the candidate of a directional mapping, None when there is none
DirectionalCandidate(m, spread_side) ==
    IF spread_side # NoSide /\ spread_side \in DOMAIN m THEN m[spread_side]
    ELSE IF "default" \in DOMAIN m THEN m["default"]
    ELSE None

\* a bare string is a file name whatever prefer_inline says
BareString_AlwaysFile(s, prefer_inline) == TextSource("file", s)

\* the TextSource of a bare string
BareString(s, prefer_inline) ==
    IF prefer_inline THEN TextSource("inline", s) ELSE TextSource("file", s)

_text_from_library(library_key, region_name, index, spread_side, depth) ==
    IF depth > RecursionLimit THEN RecursionError
    ELSE IF DOMAIN text_library = {} THEN NoText
    ELSE IF library_key \notin DOMAIN text_library THEN NoText
    ELSE LET entry == text_library[library_key]
         IN  IF ~Truthy(entry) THEN NoText
             ELSE _coerce_text_source(Get(entry.m, region_name, None), index,
                                      library_key, region_name, spread_side,
                                      TRUE, depth + 1)

_coerce_text_source(value, index, page_slug, region_name, spread_side, prefer_inline, depth) ==
    IF depth > RecursionLimit THEN RecursionError
    ELSE CASE value.t = "none" -> NoText
      [] value.t = "list" ->
            IF value.items = <<>> THEN NoText
            ELSE _coerce_text_source(ListTarget(value.items, index), index,
                                     page_slug, region_name, spread_side,
                                     prefer_inline, depth + 1)
      [] value.t = "dict" ->
            IF "inline" \in DOMAIN value.m
            THEN TextSource("inline", PyStr(value.m["inline"]))
            ELSE IF "file" \in DOMAIN value.m
            THEN TextSource("file", PyStr(value.m["file"]))
            ELSE IF "library" \in DOMAIN value.m
            THEN _text_from_library(
                     MappingLibraryKey(value.m["library"], page_slug),
                     region_name, index, spread_side, depth + 1)
            ELSE IF {"left", "right"} \cap DOMAIN value.m # {}
            THEN LET candidate == DirectionalCandidate(value.m, spread_side)
                 IN  IF candidate = None THEN NoText
                     ELSE _coerce_text_source(candidate, index, page_slug,
                                              region_name, spread_side,
                                              prefer_inline, depth + 1)
            ELSE NoText
      [] value.t = "str" ->
            IF StartsWith(value.s, AtLibrary)
            THEN _text_from_library(StringLibraryKey(value.s, page_slug),
                                    region_name, index, spread_side, depth + 1)
            ELSE BareString(value.s, prefer_inline)
      [] OTHER -> TextSource("inline", PyStr(value))

_resolve_text_reference(ref, index, page_slug, region_name, spread_side, prefer_inline) ==
    LET source == _coerce_text_source(ref, index, page_slug, region_name,
                                      spread_side, prefer_inline, 1)
    IN  IF source # NoText THEN source
        ELSE IF ref = None
        THEN _text_from_library(page_slug, region_name, index, spread_side, 1)
        ELSE NoText

-----------------------------------------------------------------------------
(* Paths and the file system the run finds *)

\* Path(name).is_absolute()
IsAbsolute(name) == name # <<>> /\ name[1] = "/"

\* self.image_folder
image_folder == <<"i", "m", "g">>

_resolve_media_path(image_name) ==
    IF IsAbsolute(image_name) THEN image_name
    ELSE image_folder \o <<"/">> \o image_name

\* the image files that exist
ExistingImages ==
    { <<"i", "m", "g", "/", "a">>, <<"i", "m", "g", "/", "w">>, <<"/", "b">> }

\* the text files of a region's folder, by name, with their content
TextFiles ==
    ( <<"h">> :> <<"u", "p", " ", "w", "e", " ", "g", "o", "\n">> ) @@
    ( <<"e">> :> <<" ", "\n">> )

POINTS_PER_INCH == 72

\* float(value) * POINTS_PER_INCH, 0.0 for what float() refuses
_inches_to_points(value) ==
    IF value.t = "int" THEN value.n * POINTS_PER_INCH ELSE 0

-----------------------------------------------------------------------------
(* The text library loader *)

\* the file's entries that are mappings
DictEntries(items) == SelectSeq(items, LAMBDA e : e.t = "dict")

\* pages: the page skeletons of the library file
LoadedPages(data) ==
    CASE data.t = "list" -> DictEntries(data.items)
      [] data.t = "dict" /\ data.has_pages ->
            IF Truthy(data.pages) THEN DictEntries(data.pages.items) ELSE <<>>
      [] OTHER -> <<>>

\* texts, before the pages' own text is merged into it
LoadedTexts(data) ==
    CASE data.t = "dict" /\ data.has_pages /\ data.has_texts -> data.texts
      [] data.t = "dict" -> data.others
      [] OTHER -> [k \in {} |-> None]

\* for entry in pages: texts[slug] = page_text, unless the slug is there
RECURSIVE MergePageTexts(_, _, _)
MergePageTexts(texts, pages, i) ==
    IF i > Len(pages) THEN texts
    ELSE LET slug == Get(pages[i].m, "slug", None)
             page_text == Get(pages[i].m, "text", None)
         IN  IF Truthy(slug) /\ page_text # None /\ slug.s \notin DOMAIN texts
             THEN MergePageTexts(texts @@ (slug.s :> page_text), pages, i + 1)
             ELSE MergePageTexts(texts, pages, i + 1)

\* (texts, pages) of a library file; no file leaves both empty
_load_text_library(data) ==
    [texts |-> MergePageTexts(LoadedTexts(data), LoadedPages(data), 1),
     pages |-> LoadedPages(data)]

-----------------------------------------------------------------------------
(* The page expander: the generator _expand_pages *)

PAGE == <<"p", "a", "g", "e">>
SPREAD == <<"s", "p", "r", "e", "a", "d">>

\* pages = self.library_pages or self.raw.get("pages", [])
Pages == IF library_pages # <<>> THEN library_pages ELSE raw_pages

using_library_pages == library_pages # <<>>

\* str(block.get("kind", "page")).strip().lower() or "page"
KindOf(block) ==
    LET kind == Lower(Strip(PyStr(Get(block.m, "kind", Str(PAGE)))))
    IN  IF kind = <<>> THEN PAGE ELSE kind

\* int(requested_span), or 2 for a spread and 1 otherwise
SpanOf(block) ==
    LET requested_span == Get(block.m, "span", None)
    IN  IF requested_span # None THEN requested_span.n
        ELSE IF KindOf(block) = SPREAD THEN 2 ELSE 1

\* block.get("slug") or f"page-{len(pages)}"
SlugOf(block) ==
    LET slug == Get(block.m, "slug", None)
    IN  IF Truthy(slug) THEN slug.s
        ELSE <<"p", "a", "g", "e", "-">> \o IntStr(Len(Pages))

\* the spread_side of sub-page index
SpreadSide(kind, index) ==
    IF kind = SPREAD THEN (IF index = 0 THEN "left" ELSE "right") ELSE NoSide

\* the parity test the wrong way round
SpreadOnOddPage_Even(kind, page_number) ==
    kind = SPREAD /\ page_number % 2 = 0

\* kind == "spread" and page_number % 2 == 1
SpreadOnOddPage(kind, page_number) ==
    kind = SPREAD /\ page_number % 2 = 1

\* a numbering that skips a number after each page
NextPageNumber_Skip(page_number) == page_number + 2

\* page_number += 1, after a yield
NextPageNumber(page_number) == page_number + 1

\* self.default_scale (in percent) and self.default_offset
default_scale == 100
default_offset == [x |-> 0, y |-> 0]

ImageScale(block) ==
    IF "image_scale" \in DOMAIN block.m THEN block.m["image_scale"].n
    ELSE default_scale

ImageOffset(block) ==
    LET offset_cfg == Get(block.m, "image_offset_in", Dict(EmptyDict)).m
    IN  [x |-> IF "x" \in DOMAIN offset_cfg
               THEN _inches_to_points(offset_cfg["x"]) ELSE default_offset.x,
         y |-> IF "y" \in DOMAIN offset_cfg
               THEN _inches_to_points(offset_cfg["y"]) ELSE default_offset.y]

\* text_refs of sub-page index of block: every configured region resolved
TextRefs(block, index) ==
    LET block_text == Get(block.m, "text", Dict(EmptyDict)).m
    IN  [region_name \in {text_regions[i].name : i \in DOMAIN text_regions} |->
            _resolve_text_reference(Get(block_text, region_name, None), index,
                                    SlugOf(block), region_name,
                                    SpreadSide(KindOf(block), index),
                                    using_library_pages)]

\* the PageSpec of sub-page index of block, numbered page_number
PageSpec(block, index, page_number) ==
    [slug |-> SlugOf(block),
     sequence_index |-> index,
     page_number |-> page_number,
     kind |-> KindOf(block),
     spread_side |-> SpreadSide(KindOf(block), index),
     image_path |-> _resolve_media_path(block.m["image"].s),
     image_scale |-> ImageScale(block),
     image_offset |-> ImageOffset(block),
     text_refs |-> TextRefs(block, index)]

\* the generator's frame before its first resumption
GenStart == [block |-> 0, index |-> 0, page_number |-> 1]

\* Where a resumed generator stands when it next looks at a block: at the
\* first block, at the next sub-page of its block (after page_number += 1),
\* or at the head of the following block.
Resumed ==
    IF gen.block = 0
    THEN [block |-> 1, index |-> 0, page_number |-> gen.page_number,
          header |-> TRUE]
    ELSE IF gen.index + 1 < SpanOf(Pages[gen.block])
    THEN [block |-> gen.block, index |-> gen.index + 1,
          page_number |-> NextPageNumber(gen.page_number), header |-> FALSE]
    ELSE [block |-> gen.block + 1, index |-> 0,
          page_number |-> NextPageNumber(gen.page_number), header |-> TRUE]

Frame(pos) ==
    [block |-> pos.block, index |-> pos.index, page_number |-> pos.page_number]

\* the exception the generator raises from pos before it yields, or "none"
ExpandError(pos) ==
    LET block == Pages[pos.block]
    IN  IF pos.header /\ SpanOf(block) < 1
        THEN "ValueError: Page span must be >= 1"
        ELSE IF pos.header /\ SpreadOnOddPage(KindOf(block), pos.page_number)
        THEN "ValueError: Spread must start on a left-hand page"
        ELSE IF ~Truthy(Get(block.m, "image", None))
        THEN "ValueError: Every page needs an image"
        ELSE IF \E r \in DOMAIN TextRefs(block, pos.index) :
                    TextRefs(block, pos.index)[r] = RecursionError
        THEN "RecursionError"
        ELSE "none"

\* next(generator) yields a PageSpec
ExpandYield ==
    /\ pc = "expand"
    /\ Resumed.block <= Len(Pages)
    /\ ExpandError(Resumed) = "none"
    /\ gen' = Frame(Resumed)
    /\ page' = PageSpec(Pages[Resumed.block], Resumed.index, Resumed.page_number)
    /\ emitted' = Append(emitted, page')
    /\ pc' = "draw"
    /\ UNCHANGED <<raw_pages, text_library, library_pages, text_regions,
                   output_image_dir, manuscript_path, missing_images,
                   total_pages, pages_with_images, word_count,
                   manuscript_entries, canvas, output_pdf, image_files,
                   manuscript_file, console, error>>

\* the exception of the generator is swallowed and build goes on to save
\* the pages drawn so far
ExpandRaise_SavesPartial ==
    /\ pc = "expand"
    /\ Resumed.block <= Len(Pages)
    /\ ExpandError(Resumed) # "none"
    /\ gen' = Frame(Resumed)
    /\ error' = ExpandError(Resumed)
    /\ pc' = "save"
    /\ UNCHANGED <<raw_pages, text_library, library_pages, text_regions,
                   output_image_dir, manuscript_path, missing_images,
                   total_pages, pages_with_images, word_count,
                   manuscript_entries, page, emitted, canvas, output_pdf,
                   image_files, manuscript_file, console>>

\* next(generator) raises: the exception leaves build
ExpandRaise ==
    /\ pc = "expand"
    /\ Resumed.block <= Len(Pages)
    /\ ExpandError(Resumed) # "none"
    /\ gen' = Frame(Resumed)
    /\ error' = ExpandError(Resumed)
    /\ pc' = "aborted"
    /\ UNCHANGED <<raw_pages, text_library, library_pages, text_regions,
                   output_image_dir, manuscript_path, missing_images,
                   total_pages, pages_with_images, word_count,
                   manuscript_entries, page, emitted, canvas, output_pdf,
                   image_files, manuscript_file, console>>

\* next(generator) raises StopIteration: the for loop of build ends
ExpandStop ==
    /\ pc = "expand"
    /\ Resumed.block > Len(Pages)
    /\ gen' = Frame(Resumed)
    /\ pc' = "save"
    /\ UNCHANGED <<raw_pages, text_library, library_pages, text_regions,
                   output_image_dir, manuscript_path, missing_images,
                   total_pages, pages_with_images, word_count,
                   manuscript_entries, page, emitted, canvas, output_pdf,
                   image_files, manuscript_file, console, error>>

-----------------------------------------------------------------------------
(* The layout compositor: _draw_page, _draw_background, _draw_text *)

\* the page of the document, in points: the default 6 x 9 inch trim, no bleed
page_width_pt == (6 + 2 * 0) * POINTS_PER_INCH
page_height_pt == (9 + 2 * 0) * POINTS_PER_INCH

\* image.getSize() of the image files that exist, in pixels
ImageSizes ==
    ( <<"i", "m", "g", "/", "a">> :> [w |-> 300, h |-> 300] ) @@
    ( <<"i", "m", "g", "/", "w">> :> [w |-> 1000, h |-> 500] ) @@
    ( <<"/", "b">> :> [w |-> 432, h |-> 648] )

\* Where drawImage puts an image that covers a box of box_w x box_h points:
\* cover_scale is the larger of the two ratios, image_scale is in hundredths
\* and lengths are whole points.
Cover(box_w, box_h, img, image_scale, image_offset) ==
    LET by_width == box_w * img.h >= box_h * img.w
        draw_w == IF by_width THEN (box_w * image_scale) \div 100
                  ELSE (img.w * box_h * image_scale) \div (img.h * 100)
        draw_h == IF by_width
                  THEN (img.h * box_w * image_scale) \div (img.w * 100)
                  ELSE (box_h * image_scale) \div 100
    IN  [x |-> (box_w - draw_w) \div 2 + image_offset.x,
         y |-> (box_h - draw_h) \div 2 + image_offset.y,
         width |-> draw_w, height |-> draw_h]

\* the white rectangle of _draw_blank_background
BlankRect ==
    [x |-> 0, y |-> 0, width |-> page_width_pt, height |-> page_height_pt]

\* a spread image drawn at the same place on both halves
SpreadOffsetX_NoShift(x, spread_side) == x

\* offset_x of _draw_spread_background
SpreadOffsetX(x, spread_side) ==
    IF spread_side = "right" THEN x - page_width_pt ELSE x

\* the image of a single page, covering the page
PagePlacement(pg) ==
    Cover(page_width_pt, page_height_pt, ImageSizes[pg.image_path],
          pg.image_scale, pg.image_offset)

\* the image of a spread, covering two pages and shifted for the right half
SpreadPlacement(pg) ==
    LET at == Cover(page_width_pt * 2, page_height_pt,
                    ImageSizes[pg.image_path], pg.image_scale, pg.image_offset)
    IN  [at EXCEPT !.x = SpreadOffsetX(at.x, pg.spread_side)]

\* a background drawn from the image file without asking whether it exists
Background_NoPlaceholder(pg, has_image) ==
    IF pg.kind = SPREAD
    THEN [draw |-> "spread", image |-> pg.image_path, side |-> pg.spread_side,
          at |-> IF has_image THEN SpreadPlacement(pg) ELSE BlankRect]
    ELSE [draw |-> "image", image |-> pg.image_path, side |-> NoSide,
          at |-> IF has_image THEN PagePlacement(pg) ELSE BlankRect]

\* what _draw_background puts on the page
Background(pg, has_image) ==
    IF ~has_image
    THEN [draw |-> "blank", image |-> <<>>, side |-> NoSide, at |-> BlankRect]
    ELSE IF pg.kind = SPREAD
    THEN [draw |-> "spread", image |-> pg.image_path, side |-> pg.spread_side,
          at |-> SpreadPlacement(pg)]
    ELSE [draw |-> "image", image |-> pg.image_path, side |-> NoSide,
          at |-> PagePlacement(pg)]

\* the exception _draw_text raises for a text source, or "none"
DrawTextError(layout, text_ref) ==
    IF text_ref.mode = "inline" THEN "none"
    ELSE IF ~layout.folder
    THEN "ValueError: region is not configured with a folder"
    ELSE IF text_ref.value = <<>>
    THEN "IsADirectoryError: the text path is the folder"
    ELSE IF text_ref.value \notin DOMAIN TextFiles
    THEN "FileNotFoundError: text file not found"
    ELSE "none"

\* content: the stripped inline value or the stripped text of the file
TextContent(text_ref) ==
    IF text_ref.mode = "inline" THEN Strip(text_ref.value)
    ELSE Strip(TextFiles[text_ref.value])

\* a parity test that takes the even-numbered pages for the recto ones
IsRecto_Even(page_number) == page_number % 2 = 0

\* odd-numbered pages are on the right (recto)
IsRecto(page_number) == page_number % 2 = 1

LeftInset(layout, page_number) ==
    IF ~IsRecto(page_number) /\ "outer" \in DOMAIN layout.insets
    THEN layout.insets["outer"]
    ELSE IF IsRecto(page_number) /\ "inner" \in DOMAIN layout.insets
    THEN layout.insets["inner"]
    ELSE Get(layout.insets, "left", 0)

RightInset(layout, page_number) ==
    IF IsRecto(page_number) /\ "outer" \in DOMAIN layout.insets
    THEN layout.insets["outer"]
    ELSE IF ~IsRecto(page_number) /\ "inner" \in DOMAIN layout.insets
    THEN layout.insets["inner"]
    ELSE Get(layout.insets, "right", 0)

\* the paragraph _draw_text draws
TextBox(layout, content, page_number) ==
    [region |-> layout.name, content |-> content,
     left_inset |-> LeftInset(layout, page_number),
     right_inset |-> RightInset(layout, page_number)]

\* the entry _draw_text appends to self.manuscript_entries
ManuscriptEntry(layout, content, pg) ==
    [page_number |-> pg.page_number, slug |-> pg.slug,
     spread_side |-> pg.spread_side, region |-> layout.name,
     content |-> content]

\* The loop of _draw_page over the regions, from region i on: acc holds the
\* paragraphs drawn, the word count, the manuscript entries and the
\* exception that ended the loop.
RECURSIVE DrawRegions(_, _, _)
DrawRegions(pg, i, acc) ==
    IF i > Len(text_regions) \/ acc.error # "none" THEN acc
    ELSE LET layout == text_regions[i]
             text_ref == pg.text_refs[layout.name]
         IN  IF text_ref = NoText THEN DrawRegions(pg, i + 1, acc)
             ELSE IF DrawTextError(layout, text_ref) # "none"
             THEN [acc EXCEPT !.error = DrawTextError(layout, text_ref)]
             ELSE IF TextContent(text_ref) = <<>>
             THEN DrawRegions(pg, i + 1, acc)
             ELSE DrawRegions(pg, i + 1,
                    [acc EXCEPT
                       !.texts = Append(@, TextBox(layout, TextContent(text_ref),
                                                   pg.page_number)),
                       !.word_count = @ + WordCount(TextContent(text_ref)),
                       !.manuscript_entries =
                           Append(@, ManuscriptEntry(layout,
                                                     TextContent(text_ref), pg))])

\* _draw_page(c, page, has_image), up to showPage
Drawn(pg) ==
    DrawRegions(pg, 1, [texts |-> <<>>, word_count |-> word_count,
                        manuscript_entries |-> manuscript_entries,
                        error |-> "none"])

\* page.image_path.exists()
HasImage(pg) == pg.image_path \in ExistingImages

\* self.missing_images.setdefault(page.slug, page.image_path)
SetDefault(d, key, value) == IF key \in DOMAIN d THEN d ELSE d @@ (key :> value)

\* the body of the for loop of build, for a page that is drawn
DrawPage ==
    /\ pc = "draw"
    /\ Drawn(page).error = "none"
    /\ missing_images' = IF HasImage(page) THEN missing_images
                         ELSE SetDefault(missing_images, page.slug, page.image_path)
    /\ canvas' = Append(canvas, [background |-> Background(page, HasImage(page)),
                                 texts |-> Drawn(page).texts])
    /\ word_count' = Drawn(page).word_count
    /\ manuscript_entries' = Drawn(page).manuscript_entries
    /\ total_pages' = total_pages + 1
    /\ pages_with_images' = IF HasImage(page) THEN pages_with_images + 1
                            ELSE pages_with_images
    /\ pc' = "expand"
    /\ UNCHANGED <<raw_pages, text_library, library_pages, text_regions,
                   output_image_dir, manuscript_path, gen, page, emitted,
                   output_pdf, image_files, manuscript_file, console, error>>

\* the body of the for loop of build, when _draw_text raises
DrawPageRaise ==
    /\ pc = "draw"
    /\ Drawn(page).error # "none"
    /\ missing_images' = IF HasImage(page) THEN missing_images
                         ELSE SetDefault(missing_images, page.slug, page.image_path)
    /\ word_count' = Drawn(page).word_count
    /\ manuscript_entries' = Drawn(page).manuscript_entries
    /\ error' = Drawn(page).error
    /\ pc' = "aborted"
    /\ UNCHANGED <<raw_pages, text_library, library_pages, text_regions,
                   output_image_dir, manuscript_path, total_pages,
                   pages_with_images, gen, page, emitted, canvas, output_pdf,
                   image_files, manuscript_file, console>>

-----------------------------------------------------------------------------
(* The end of build: save, page image export, manuscript, report *)

\* no such file on disk
NoFile == [written |-> FALSE, content |-> <<>>]
File(content) == [written |-> TRUE, content |-> content]

\* c.save() and the summary build prints
Save ==
    /\ pc = "save"
    /\ output_pdf' = File(canvas)
    /\ console' = Append(console, [msg |-> "Created", pages |-> total_pages,
                                   art |-> pages_with_images,
                                   words |-> word_count])
    /\ pc' = "export"
    /\ UNCHANGED <<raw_pages, text_library, library_pages, text_regions,
                   output_image_dir, manuscript_path, missing_images,
                   total_pages, pages_with_images, word_count,
                   manuscript_entries, gen, page, emitted, canvas,
                   image_files, manuscript_file, error>>

\* _export_page_images: no output_image_dir, nothing to do
ExportDisabled ==
    /\ pc = "export"
    /\ ~output_image_dir
    /\ pc' = "manuscript"
    /\ UNCHANGED <<raw_pages, text_library, library_pages, text_regions,
                   output_image_dir, manuscript_path, missing_images,
                   total_pages, pages_with_images, word_count,
                   manuscript_entries, gen, page, emitted, canvas, output_pdf,
                   image_files, manuscript_file, console, error>>

\* _export_page_images: fitz.open raises, which is caught and printed
ExportOpenFails ==
    /\ pc = "export"
    /\ output_image_dir
    /\ console' = Append(console, [msg |-> "Skipping page image export"])
    /\ pc' = "manuscript"
    /\ UNCHANGED <<raw_pages, text_library, library_pages, text_regions,
                   output_image_dir, manuscript_path, missing_images,
                   total_pages, pages_with_images, word_count,
                   manuscript_entries, gen, page, emitted, canvas, output_pdf,
                   image_files, manuscript_file, error>>

\* _export_page_images: unlinking a stale file, rasterizing page idx or
\* saving its image raises, after the images of the pages before idx were
\* written (idx = 0: while the stale files are cleared). The try has a
\* finally and no except: doc.close() runs and the exception leaves build.
ExportFails ==
    /\ pc = "export"
    /\ output_image_dir
    /\ \E idx \in 0..Len(output_pdf.content) :
       \E step \in IF idx = 0 THEN {"unlink"} ELSE {"get_pixmap", "save"} :
          /\ image_files' = 1..(IF idx = 0 THEN 0 ELSE idx - 1)
          /\ error' = "Exception: " \o step
    /\ pc' = "aborted"
    /\ UNCHANGED <<raw_pages, text_library, library_pages, text_regions,
                   output_image_dir, manuscript_path, missing_images,
                   total_pages, pages_with_images, word_count,
                   manuscript_entries, gen, page, emitted, canvas, output_pdf,
                   manuscript_file, console>>

\* _export_page_images: one image per page of the document
ExportPageImages ==
    /\ pc = "export"
    /\ output_image_dir
    /\ image_files' = 1..Len(output_pdf.content)
    /\ console' = Append(console, [msg |-> "Page images written"])
    /\ pc' = "manuscript"
    /\ UNCHANGED <<raw_pages, text_library, library_pages, text_regions,
                   output_image_dir, manuscript_path, missing_images,
                   total_pages, pages_with_images, word_count,
                   manuscript_entries, gen, page, emitted, canvas, output_pdf,
                   manuscript_file, error>>

\* region_order.get(entry["region"], 99)
RegionRank(region) ==
    CASE region = "top" -> 0
      [] region = "middle" -> 1
      [] region = "bottom" -> 2
      [] OTHER -> 99

\* the place of entry["spread_side"] or "" among "" < "left" < "right"
SideRank(spread_side) ==
    CASE spread_side = "left" -> 1
      [] spread_side = "right" -> 2
      [] OTHER -> 0

\* sort_key(a) < sort_key(b)
KeyLess(a, b) ==
    \/ a.page_number < b.page_number
    \/ /\ a.page_number = b.page_number
       /\ \/ SideRank(a.spread_side) < SideRank(b.spread_side)
          \/ /\ SideRank(a.spread_side) = SideRank(b.spread_side)
             /\ RegionRank(a.region) < RegionRank(b.region)

\* sorted(entries, key=sort_key): a stable sort, by insertion
RECURSIVE SortedEntries(_, _)
SortedEntries(entries, n) ==
    IF n = 0 THEN <<>>
    ELSE LET before == SortedEntries(entries, n - 1)
             e == entries[n]
             k == Cardinality({i \in DOMAIN before : ~KeyLess(e, before[i])})
         IN  SubSeq(before, 1, k) \o <<e>> \o SubSeq(before, k + 1, Len(before))

\* _write_manuscript
WriteManuscript ==
    /\ pc = "manuscript"
    /\ IF manuscript_path
       THEN /\ manuscript_file' =
                  File(SortedEntries(manuscript_entries, Len(manuscript_entries)))
            /\ console' = Append(console, [msg |-> "Manuscript written"])
       ELSE UNCHANGED <<manuscript_file, console>>
    /\ pc' = "report"
    /\ UNCHANGED <<raw_pages, text_library, library_pages, text_regions,
                   output_image_dir, manuscript_path, missing_images,
                   total_pages, pages_with_images, word_count,
                   manuscript_entries, gen, page, emitted, canvas, output_pdf,
                   image_files, error>>

\* the missing-images report that ends build
Report ==
    /\ pc = "report"
    /\ console' = IF DOMAIN missing_images # {}
                  THEN Append(console, [msg |-> "Skipped pages because images were missing",
                                        slugs |-> DOMAIN missing_images])
                  ELSE console
    /\ pc' = "done"
    /\ UNCHANGED <<raw_pages, text_library, library_pages, text_regions,
                   output_image_dir, manuscript_path, missing_images,
                   total_pages, pages_with_images, word_count,
                   manuscript_entries, gen, page, emitted, canvas, output_pdf,
                   image_files, manuscript_file, error>>

Next ==
    \/ ExpandYield
    \/ ExpandRaise
    \/ ExpandStop
    \/ DrawPage
    \/ DrawPageRaise
    \/ Save
    \/ ExportDisabled
    \/ ExportOpenFails
    \/ ExportFails
    \/ ExportPageImages
    \/ WriteManuscript
    \/ Report

-----------------------------------------------------------------------------
(* The configurations a run starts from *)

\* the region layouts of book.text_layout: "top" has a folder and
\* inner/outer insets, "bottom" has neither
TextLayout ==
    << [name |-> "top", folder |-> TRUE, vertical_anchor |-> "top",
        insets |-> [left |-> 36, right |-> 36, inner |-> 54, outer |-> 18]],
       [name |-> "bottom", folder |-> FALSE, vertical_anchor |-> "bottom",
        insets |-> [left |-> 36, right |-> 36]] >>

\* region layouts with one mirrored inset each: "top" has only inner,
\* "bottom" has only outer, and left differs from right
TextLayoutOneSided ==
    << [name |-> "top", folder |-> TRUE, vertical_anchor |-> "top",
        insets |-> [left |-> 36, right |-> 72, inner |-> 54]],
       [name |-> "bottom", folder |-> FALSE, vertical_anchor |-> "bottom",
        insets |-> [left |-> 36, right |-> 72, outer |-> 18]] >>

\* the text layouts a configuration may declare
LayoutPool == { TextLayout, TextLayoutOneSided }

\* image_output and manuscript of the config: both on, or both false
OutputPool ==
    { [images |-> TRUE, manuscript |-> TRUE],
      [images |-> FALSE, manuscript |-> FALSE] }

Inline(s) == Dict([inline |-> Str(s)])
FileRef(s) == Dict([file |-> Str(s)])

\* the page blocks the page lists of Spec are made of
BlockPool ==
    { Dict([slug |-> Str(<<"p">>), image |-> Str(<<"a">>),
            text |-> Dict([top |-> Inline(<<" ", "u", "p", " ", "w", "e", " ">>),
                           bottom |-> Inline(<<"g", "o">>)])]),
      Dict([slug |-> Str(<<"m">>), image |-> Str(<<"x">>),
            text |-> Dict([top |-> FileRef(<<"e">>)])]),
      Dict([slug |-> Str(<<"n">>), kind |-> Str(<<>>)]),
      Dict([slug |-> Str(<<"s">>), kind |-> Str(SPREAD), image |-> Str(<<"w">>),
            image_scale |-> Num(150), image_offset_in |-> Dict([x |-> Num(1)]),
            text |-> Dict([top |-> Dict([left |-> Inline(<<"l">>),
                                         right |-> Inline(<<"r">>)])])]),
      Dict([slug |-> Str(<<"t">>), kind |-> Str(<<" ", "S", "p", "r", "e", "a", "d">>),
            span |-> Num(3), image |-> Str(<<"w">>),
            text |-> Dict([bottom |-> Inline(<<" ">>)])]),
      Dict([slug |-> Str(<<"z">>), kind |-> Str(SPREAD), span |-> Num(0),
            image |-> Str(<<"a">>)]),
      Dict([slug |-> Str(<<"f">>), image |-> Str(<<"a">>),
            text |-> Dict([top |-> FileRef(<<"h">>), bottom |-> FileRef(<<"h">>)])]),
      Dict([slug |-> Str(<<"g">>), image |-> Str(<<"x">>),
            text |-> Dict([top |-> FileRef(<<"q">>)])]),
      Dict([image |-> Str(<<"/", "b">>), span |-> Num(2),
            text |-> Dict([top |-> List(<<Inline(<<"a">>), Inline(<<"b", " ", "c">>)>>)])]) }

\* the page lists of at most n blocks of pool
PageLists(pool, n) == UNION { [1..k -> pool] : k \in 0..n }

NoTexts == [k \in {} |-> None]

\* the texts of the library files of Spec
TextsPool ==
    { NoTexts,
      ( <<"m">> :> Dict([bottom |-> Str(<<"a", " ", "b">>)]) ) }

\* The library file a configuration names: none; a flat mapping of texts;
\* or, when the pages come from the library, a document with pages and texts.
LibraryFile(source, pages, texts) ==
    IF source = "library"
    THEN [t |-> "dict", has_pages |-> TRUE, pages |-> List(pages),
          has_texts |-> TRUE, texts |-> texts, others |-> NoTexts]
    ELSE IF texts = NoTexts THEN None
    ELSE [t |-> "dict", has_pages |-> FALSE, pages |-> None,
          has_texts |-> FALSE, texts |-> NoTexts, others |-> texts]

\* the one block of the config's own page list when the library has pages
ConfigOnlyBlock == Dict([slug |-> Str(<<"k">>), image |-> Str(<<"a">>)])

\* the state BookBuilder.__init__ leaves, for pages from source
Constructed(source, pages, texts, out) ==
    /\ raw_pages = IF source = "library" THEN <<ConfigOnlyBlock>> ELSE pages
    /\ text_library = _load_text_library(LibraryFile(source, pages, texts)).texts
    /\ library_pages = _load_text_library(LibraryFile(source, pages, texts)).pages
    /\ text_regions \in LayoutPool
    /\ output_image_dir = out.images
    /\ manuscript_path = out.manuscript
    /\ missing_images = [k \in {} |-> <<>>]
    /\ total_pages = 0
    /\ pages_with_images = 0
    /\ word_count = 0
    /\ manuscript_entries = <<>>
    /\ gen = GenStart
    /\ page = None
    /\ emitted = <<>>
    /\ canvas = <<>>
    /\ output_pdf = NoFile
    /\ image_files = {}
    /\ manuscript_file = NoFile
    /\ console = <<>>
    /\ error = "none"
    /\ pc = "expand"

Init ==
    \E source \in {"config", "library"} :
    \E pages \in PageLists(BlockPool, MaxBlocks) :
    \E texts \in TextsPool :
    \E out \in OutputPool :
        Constructed(source, pages, texts, out)

Spec == Init /\ [][Next]_vars

-----------------------------------------------------------------------------
(* The configurations of SpecText: one block, any text reference *)

\* "@library:" followed by key
LibraryString(key) == Str(AtLibrary \o <<":">> \o key)

\* {library: key}
LibraryMapping(key) == Dict([library |-> Str(key)])

\* the library keys the references name: seven keys of LibraryTexts, one
\* that is absent, one that holds a colon, and the empty key
LibraryKeys ==
    { <<"a">>, <<"b">>, <<"c">>, <<"d">>, <<"f">>, <<"g">>, <<"j">>, <<"q">>,
      <<"a", ":", "b">>, <<>> }

\* a library whose entries hold a literal, a list, a file mapping, a
\* reference to themselves (c), to each other (d, e), to a list (j),
\* nothing (f), and no "top" region (g)
LibraryTexts ==
    ( <<"a">> :> Dict([top |-> Str(<<"h", "i">>), bottom |-> Str(<<"l", "o">>)]) ) @@
    ( <<"b">> :> Dict([top |-> List(<<Str(<<"x">>), Str(<<"y">>), Str(<<"z">>)>>),
                       bottom |-> FileRef(<<"h">>)]) ) @@
    ( <<"c">> :> Dict([top |-> LibraryString(<<"c">>)]) ) @@
    ( <<"d">> :> Dict([top |-> LibraryMapping(<<"e">>)]) ) @@
    ( <<"e">> :> Dict([top |-> LibraryString(<<"d">>)]) ) @@
    ( <<"f">> :> Dict(EmptyDict) ) @@
    ( <<"g">> :> Dict([bottom |-> Str(<<"z">>)]) ) @@
    ( <<"j">> :> Dict([top |-> LibraryString(<<"b">>)]) ) @@
    ( <<"a", ":", "b">> :> Dict([top |-> Num(42)]) )

\* the raw text references of region "top" of the block
RefPool ==
    { LibraryString(k) : k \in LibraryKeys } \cup
    { LibraryMapping(k) : k \in LibraryKeys } \cup
    { \* scalars
      Str(<<"h">>), Str(<<"n", "o">>), Str(<<>>), Str(AtLibrary),
      Str(AtLibrary \o <<"x">>), Num(5), Num(0),
      \* mappings with a mode key
      Inline(<<"o", "n", "e", " ", "t", "w", "o">>), FileRef(<<"h">>),
      Dict([inline |-> Num(7)]), Dict([inline |-> None]),
      Dict([library |-> None]),
      Dict([file |-> Str(<<"h">>), inline |-> Str(<<"i">>), left |-> Str(<<"l">>)]),
      \* mappings without one
      Dict(EmptyDict), Dict([other |-> Str(<<"h">>)]),
      Dict([default |-> Str(<<"h">>)]),
      Dict([left |-> Inline(<<"l">>), right |-> Inline(<<"r">>)]),
      Dict([left |-> Str(<<"h">>)]),
      Dict([right |-> Inline(<<"r">>), default |-> Inline(<<"d">>)]),
      Dict([left |-> None, default |-> Inline(<<"d">>)]),
      Dict([left |-> List(<<Inline(<<"l">>)>>), right |-> LibraryString(<<"b">>),
            default |-> Num(1)]),
      \* lists
      List(<<>>), List(<<Str(<<"h">>)>>),
      List(<<Inline(<<"a">>), Inline(<<"b">>)>>),
      List(<<Inline(<<"a">>), None>>),
      List(<<Inline(<<"a">>), List(<<Inline(<<"u">>), Inline(<<"v">>),
                                       Inline(<<"w">>), Inline(<<"x">>)>>)>>),
      List(<<LibraryString(<<"b">>)>>),
      List(<<Inline(<<"a">>), LibraryMapping(<<"j">>)>>),
      List(<<Dict([left |-> Inline(<<"l">>), right |-> Inline(<<"r">>)])>>),
      List(<<LibraryString(<<"c">>)>>) }

\* the block under test: TestSpan sub-pages of kind, with ref for "top"
\* (absent: the block has no text for "top")
TestBlock(kind, ref) ==
    Dict([slug |-> Str(<<"p">>), kind |-> Str(kind), span |-> Num(TestSpan),
          image |-> Str(<<"a">>),
          text |-> IF ref = None THEN Dict(EmptyDict)
                   ELSE Dict([top |-> ref])])

\* a one-page block that puts the block under test on an even page
LeadingBlock == Dict([slug |-> Str(<<"a">>), image |-> Str(<<"a">>)])

InitText ==
    \E source \in {"config", "library"} :
    \E kind \in {PAGE, SPREAD} :
    \E ref \in RefPool \cup {None} :
    \E texts \in {NoTexts, LibraryTexts} :
    \E out \in OutputPool :
        Constructed(source, <<LeadingBlock, TestBlock(kind, ref)>>, texts, out)

SpecText == InitText /\ [][Next]_vars

-----------------------------------------------------------------------------
(* Properties of the page expander and of build, under Spec *)

\* the exceptions the for loop of build can end with
SpanError == "ValueError: Page span must be >= 1"
SpreadError == "ValueError: Spread must start on a left-hand page"
LoopErrors ==
    { SpanError, SpreadError, "ValueError: Every page needs an image",
      "ValueError: region is not configured with a folder",
      "FileNotFoundError: text file not found",
      "IsADirectoryError: the text path is the folder", "RecursionError" }

\* the number of sub-pages of the first n blocks
RECURSIVE SumSpans(_)
SumSpans(n) == IF n = 0 THEN 0 ELSE SumSpans(n - 1) + SpanOf(Pages[n])

\* the generator stands in a block of the page list
InBlock == gen.block \in 1..Len(Pages)

\* C1: the k-th PageSpec the generator yields has page_number k: the
\* numbering starts at 1, grows by one per sub-page and is neither reset
\* nor skipped where a block ends.
C1_PageNumbersSequential ==
    \A k \in DOMAIN emitted : emitted[k].page_number = k

\* three pages yielded, the last from another block than the first
C1_Witness ==
    /\ Len(emitted) >= 3
    /\ gen.block >= 2
    /\ emitted[1].slug # emitted[Len(emitted)].slug

\* C2: a spread block reached on an odd page number ends the expansion with
\* a configuration error, and no PageSpec of that block or of a later one
\* is yielded; the spread error is raised for no block on an even page.
C2_SpreadOnOddPageRejected ==
    /\ ( /\ InBlock
         /\ gen.index = 0
         /\ KindOf(Pages[gen.block]) = SPREAD
         /\ gen.page_number % 2 = 1 )
       => /\ pc = "aborted"
          /\ error \in {SpanError, SpreadError}
          /\ Len(emitted) = SumSpans(gen.block - 1)
    /\ error = SpreadError
       => /\ InBlock
          /\ KindOf(Pages[gen.block]) = SPREAD
          /\ gen.page_number % 2 = 1

\* a spread rejected on page 3, with a block after it that yields nothing
C2_Witness ==
    /\ error = SpreadError
    /\ gen.page_number = 3
    /\ Len(emitted) = 2
    /\ gen.block < Len(Pages)

-----------------------------------------------------------------------------
(* Properties of the text source resolver, under SpecText *)

\* the raw reference of region "top" of the block under test
TestRef == Get(Get(Pages[2].m, "text", Dict(EmptyDict)).m, "top", None)

\* the generator has just yielded a sub-page of the block under test
TestPageYielded == pc = "draw" /\ gen.block = 2

\* Whether resolving value from page_slug comes to select from a list: the
\* resolver's own path, through directional mappings and library
\* references, up to the first list (or to the recursion limit).
RECURSIVE MeetsList(_, _, _, _)
MeetsList(value, page_slug, spread_side, depth) ==
    LET library(key) ==
            /\ key \in DOMAIN text_library
            /\ Truthy(text_library[key])
            /\ MeetsList(Get(text_library[key].m, "top", None), key,
                         spread_side, depth + 1)
    IN  IF depth > RecursionLimit THEN TRUE
        ELSE CASE value.t = "list" -> TRUE
          [] value.t = "dict" ->
                IF {"inline", "file"} \cap DOMAIN value.m # {} THEN FALSE
                ELSE IF "library" \in DOMAIN value.m
                THEN library(MappingLibraryKey(value.m["library"], page_slug))
                ELSE IF {"left", "right"} \cap DOMAIN value.m # {}
                THEN MeetsList(DirectionalCandidate(value.m, spread_side),
                               page_slug, spread_side, depth + 1)
                ELSE FALSE
          [] value.t = "str" ->
                /\ StartsWith(value.s, AtLibrary)
                /\ library(StringLibraryKey(value.s, page_slug))
          [] OTHER -> FALSE

\* the last element of the list TestRef
LastOfTestRef == TestRef.items[Len(TestRef.items)]

\* C3 as claimed: a non-empty list resolved with an index past its end
\* gives what it gives with index len - 1, whatever its elements are.
C3_ClampLawAsClaimed ==
    ( /\ TestPageYielded
      /\ TestRef.t = "list"
      /\ TestRef.items # <<>>
      /\ page.sequence_index >= Len(TestRef.items) )
    => page.text_refs["top"] =
          _resolve_text_reference(TestRef, Len(TestRef.items) - 1, page.slug,
                                  "top", page.spread_side, using_library_pages)

\* C3, amended: a non-empty list resolved with an index i past its end
\* gives what its last element gives with index i; that is what the list
\* gives with index len - 1 unless resolving the last element comes to
\* select from a list itself.
C3_ClampToLastElement ==
    ( /\ TestPageYielded
      /\ TestRef.t = "list"
      /\ TestRef.items # <<>>
      /\ page.sequence_index >= Len(TestRef.items) )
    => /\ page.text_refs["top"] =
             _coerce_text_source(LastOfTestRef, page.sequence_index, page.slug,
                                 "top", page.spread_side, using_library_pages, 2)
       /\ ~MeetsList(LastOfTestRef, page.slug, page.spread_side, 2)
          => page.text_refs["top"] =
                _resolve_text_reference(TestRef, Len(TestRef.items) - 1,
                                        page.slug, "top", page.spread_side,
                                        using_library_pages)

\* a two-element list resolved for the third sub-page: its last element,
\* a mapping, gives the text
C3_Witness ==
    /\ TestPageYielded
    /\ TestRef = List(<<Inline(<<"a">>), Inline(<<"b">>)>>)
    /\ page.sequence_index = 2
    /\ page.text_refs["top"] = TextSource("inline", <<"b">>)

\* C4: "@library:key" and {library: key} resolve alike, for every key (the
\* empty one too), sub-page, spread side, page source and library: to the
\* same TextSource or no text, or both without returning.
C4_LibrarySyntaxesAgree ==
    \A key \in LibraryKeys :
    \A other \in {LibraryString(key), LibraryMapping(key)} :
        /\ /\ TestPageYielded
           /\ TestRef \in {LibraryString(key), LibraryMapping(key)}
           => page.text_refs["top"] =
                 _resolve_text_reference(other, page.sequence_index, page.slug,
                                         "top", page.spread_side,
                                         using_library_pages)
        /\ /\ gen.block = 2
           /\ error = "RecursionError"
           /\ TestRef \in {LibraryString(key), LibraryMapping(key)}
           => RecursionError =
                 _resolve_text_reference(other, gen.index, SlugOf(Pages[2]),
                                         "top", SpreadSide(KindOf(Pages[2]), gen.index),
                                         using_library_pages)

\* "@library:b" resolved for the right page of a spread, from the list the
\* library holds for b
C4_Witness ==
    /\ TestPageYielded
    /\ TestRef = LibraryString(<<"b">>)
    /\ page.spread_side = "right"
    /\ page.text_refs["top"] = TextSource("inline", <<"y">>)

\* a string that is no "@library" reference
BareStringValue(v) == v.t = "str" /\ ~StartsWith(v.s, AtLibrary)

\* the region value the library holds under key, None when it holds none
LibraryValue(key, region_name) ==
    IF key \in DOMAIN text_library /\ Truthy(text_library[key])
    THEN Get(text_library[key].m, region_name, None)
    ELSE None

\* C5: a bare string of the block is a file name when the pages come from
\* the config's own list and literal text when they come from the
\* library's page list; a bare string the library holds, reached by a
\* reference or by the block's slug, is literal text either way.
C5_BareStringMode ==
    /\ ( TestPageYielded /\ BareStringValue(TestRef) )
       => page.text_refs["top"] =
             TextSource(IF using_library_pages THEN "inline" ELSE "file",
                        TestRef.s)
    /\ \A key \in LibraryKeys \ {<<>>} :
          ( /\ TestPageYielded
            /\ TestRef \in {LibraryString(key), LibraryMapping(key)}
            /\ BareStringValue(LibraryValue(key, "top")) )
          => page.text_refs["top"] =
                TextSource("inline", LibraryValue(key, "top").s)
    /\ \A region_name \in {"top", "bottom"} :
          ( /\ pc = "draw"
            /\ region_name \notin DOMAIN Get(Pages[gen.block].m, "text",
                                             Dict(EmptyDict)).m
            /\ BareStringValue(LibraryValue(page.slug, region_name)) )
          => page.text_refs[region_name] =
                TextSource("inline", LibraryValue(page.slug, region_name).s)

\* the bare string "h" of a block of the library's page list is literal text
C5_Witness ==
    /\ TestPageYielded
    /\ using_library_pages
    /\ TestRef = Str(<<"h">>)
    /\ page.text_refs["top"] = TextSource("inline", <<"h">>)

\* C6: whatever the library holds, references to its own keys included,
\* the resolver returns a TextSource or no text: the expansion never ends
\* with the interpreter's recursion limit exceeded.
C6_ResolverReturns ==
    /\ error # "RecursionError"
    /\ pc = "draw" =>
          \A region_name \in DOMAIN page.text_refs :
              page.text_refs[region_name].mode \in {"inline", "file", "none"}

\* the shapes C7 names, for the sub-page the generator stands at: a mapping
\* without a recognized key, a directional mapping without a candidate, a
\* library reference without a library, with an absent key, or to an entry
\* that lacks the region
MalformedTestRef ==
    LET side == SpreadSide(KindOf(Pages[2]), gen.index)
        keyed == { key \in LibraryKeys \ {<<>>} :
                      TestRef \in {LibraryString(key), LibraryMapping(key)} }
    IN  \/ /\ TestRef.t = "dict"
           /\ {"inline", "file", "library"} \cap DOMAIN TestRef.m = {}
           /\ \/ {"left", "right"} \cap DOMAIN TestRef.m = {}
              \/ /\ (side = NoSide \/ side \notin DOMAIN TestRef.m)
                 /\ "default" \notin DOMAIN TestRef.m
        \/ \E key \in keyed :
              \/ DOMAIN text_library = {}
              \/ key \notin DOMAIN text_library
              \/ "top" \notin DOMAIN text_library[key].m

\* C7: none of these shapes makes the resolver raise: the reference
\* resolves to no text and the sub-page is yielded.
C7_MalformedReferenceIsNoText ==
    ( gen.block = 2 /\ MalformedTestRef )
    => /\ error = "none"
       /\ Len(emitted) = gen.index + 2
       /\ emitted[Len(emitted)].sequence_index = gen.index
       /\ emitted[Len(emitted)].text_refs["top"] = NoText

\* {left: "h"} on a page that is no spread: no candidate, no text, and the
\* page is drawn all the same
C7_Witness ==
    /\ gen.block = 2
    /\ TestRef = Dict([left |-> Str(<<"h">>)])
    /\ MalformedTestRef
    /\ Len(canvas) = 3
    /\ emitted[3].text_refs["top"] = NoText

-----------------------------------------------------------------------------
(* Properties of build and of its post-pass, under Spec *)

\* the pages drawn so far whose image file is missing
DrawnWithoutImage == {k \in 1..Len(canvas) : ~HasImage(emitted[k])}

\* C8: a page whose image file is missing is drawn with the placeholder
\* background and counted in total_pages but not in pages_with_images; its
\* slug is recorded; drawing a page raises only for a file-mode text, so
\* the missing image ends no run; and the report that ends the run names
\* the slug.
C8_MissingImageIsPlaceholder ==
    /\ \A k \in DrawnWithoutImage :
          /\ canvas[k].background.draw = "blank"
          /\ emitted[k].slug \in DOMAIN missing_images
    /\ total_pages = Len(canvas)
    /\ pages_with_images = Len(canvas) - Cardinality(DrawnWithoutImage)
    /\ ( pc = "aborted" /\ Len(emitted) > Len(canvas) )
       => \E region_name \in DOMAIN page.text_refs :
             page.text_refs[region_name].mode = "file"
    /\ ( pc = "done" /\ DrawnWithoutImage # {} )
       => /\ console[Len(console)].msg = "Skipped pages because images were missing"
          /\ \A k \in DrawnWithoutImage :
                emitted[k].slug \in console[Len(console)].slugs

\* a finished run of three pages whose first page had no image file
C8_Witness ==
    /\ pc = "done"
    /\ 1 \in DrawnWithoutImage
    /\ total_pages = 3
    /\ pages_with_images = 2

\* C9: no failure inside the page image export leaves build: once the
\* document is saved, build goes on to the manuscript and the report.
C9_ExportFailureIsCaught ==
    output_pdf.written => pc # "aborted"

\* C10: the document is saved only when the generator is exhausted and
\* every page it yielded is drawn, and it holds exactly those pages; a run
\* that an exception of the page loop ends writes no document, no page
\* image and no manuscript.
C10_NoTruncatedDocument ==
    /\ output_pdf.written
       => /\ gen.block = Len(Pages) + 1
          /\ Len(emitted) = SumSpans(Len(Pages))
          /\ Len(output_pdf.content) = Len(emitted)
          /\ error \notin LoopErrors
    /\ error \in LoopErrors
       => /\ pc = "aborted"
          /\ ~output_pdf.written
          /\ image_files = {}
          /\ ~manuscript_file.written
    /\ (image_files # {} \/ manuscript_file.written) => output_pdf.written

\* two pages drawn, then a configuration error: nothing is written
C10_Witness ==
    /\ pc = "aborted"
    /\ error \in LoopErrors \ {"RecursionError"}
    /\ Len(canvas) = 2
    /\ ~output_pdf.written

-----------------------------------------------------------------------------
(* Claims about the text the compositor draws (specification Spec) *)

\* the layout of the region a paragraph was drawn for
RegionOf(name) ==
    CHOOSE layout \in { text_regions[i] : i \in 1..Len(text_regions) } :
        layout.name = name

\* the paragraphs on the canvas: <<k, i>> is paragraph i of page k
DrawnBoxes ==
    { <<k, i>> \in (1..Len(canvas)) \X (1..Len(text_regions)) :
        i <= Len(canvas[k].texts) }

\* C11: a paragraph of a region with inner X and outer Y has left inset X
\* and right inset Y on an odd page, left Y and right X on an even page;
\* when the region has only one of inner and outer, that one goes to the
\* same side and the other side keeps the region's left or right inset.
C11_InnerOuterByParity ==
    \A b \in DrawnBoxes :
        LET box == canvas[b[1]].texts[b[2]]
            insets == RegionOf(box.region).insets
            odd == emitted[b[1]].page_number % 2 = 1
            has_inner == "inner" \in DOMAIN insets
            has_outer == "outer" \in DOMAIN insets
        IN  /\ (has_inner /\ odd) => box.left_inset = insets["inner"]
            /\ (has_inner /\ ~odd) => box.right_inset = insets["inner"]
            /\ (has_outer /\ odd) => box.right_inset = insets["outer"]
            /\ (has_outer /\ ~odd) => box.left_inset = insets["outer"]
            /\ (~has_inner /\ odd) => box.left_inset = insets["left"]
            /\ (~has_inner /\ ~odd) => box.right_inset = insets["right"]
            /\ (~has_outer /\ odd) => box.right_inset = insets["right"]
            /\ (~has_outer /\ ~odd) => box.left_inset = insets["left"]

\* a region with inner 54 and outer 18 drew a paragraph on an odd page and
\* one on an even page
C11_Witness ==
    /\ text_regions = TextLayout
    /\ \E b \in DrawnBoxes :
          /\ canvas[b[1]].texts[b[2]].region = "top"
          /\ emitted[b[1]].page_number % 2 = 1
          /\ canvas[b[1]].texts[b[2]].left_inset = 54
          /\ canvas[b[1]].texts[b[2]].right_inset = 18
    /\ \E b \in DrawnBoxes :
          /\ canvas[b[1]].texts[b[2]].region = "top"
          /\ emitted[b[1]].page_number % 2 = 0
          /\ canvas[b[1]].texts[b[2]].left_inset = 18
          /\ canvas[b[1]].texts[b[2]].right_inset = 54

\* a region with only inner drew on an even page, one with only outer on
\* an odd page: the other side kept left 36 or right 72
C11_OneSidedReached ==
    /\ text_regions = TextLayoutOneSided
    /\ \E b \in DrawnBoxes :
          /\ canvas[b[1]].texts[b[2]].region = "top"
          /\ emitted[b[1]].page_number % 2 = 0
          /\ canvas[b[1]].texts[b[2]].left_inset = 36
          /\ canvas[b[1]].texts[b[2]].right_inset = 54
    /\ \E b \in DrawnBoxes :
          /\ canvas[b[1]].texts[b[2]].region = "bottom"
          /\ emitted[b[1]].page_number % 2 = 1
          /\ canvas[b[1]].texts[b[2]].left_inset = 36
          /\ canvas[b[1]].texts[b[2]].right_inset = 18

\* the tokens of s counted by a scan from position i on
RECURSIVE TokensFrom(_, _, _)
TokensFrom(s, i, in_word) ==
    IF i > Len(s) THEN 0
    ELSE IF s[i] \in Whitespace THEN TokensFrom(s, i + 1, FALSE)
    ELSE (IF in_word THEN 0 ELSE 1) + TokensFrom(s, i + 1, TRUE)

\* the tokens of the contents of the first n manuscript entries
RECURSIVE SumTokens(_)
SumTokens(n) ==
    IF n = 0 THEN 0
    ELSE SumTokens(n - 1) + TokensFrom(manuscript_entries[n].content, 1, FALSE)

\* c is s without its leading and trailing whitespace
IsTrimOf(c, s) ==
    \E i \in 1..(Len(s) + 1) : \E j \in 0..Len(s) :
        /\ c = SubSeq(s, i, j)
        /\ \A k \in 1..Len(s) : (k < i \/ k > j) => s[k] \in Whitespace
        /\ c # <<>> => (c[1] \notin Whitespace /\ c[Len(c)] \notin Whitespace)

\* the text a text source stands for, before it is trimmed
RawContent(text_ref) ==
    IF text_ref.mode = "inline" THEN text_ref.value
    ELSE TextFiles[text_ref.value]

\* the manuscript entries of region name on page k
EntriesOf(k, name) ==
    { n \in 1..Len(manuscript_entries) :
        /\ manuscript_entries[n].page_number = emitted[k].page_number
        /\ manuscript_entries[n].region = name }

\* the regions of page k that have a text source
SourcedRegions(k) ==
    { i \in 1..Len(text_regions) :
        emitted[k].text_refs[text_regions[i].name] # NoText }

\* C12: the word count is the number of whitespace-separated tokens of the
\* trimmed contents drawn so far; every region of a drawn page whose trimmed
\* content is not empty has exactly one manuscript entry, holding that
\* content, and one paragraph; a region whose content is empty or only
\* whitespace has no entry and adds nothing to the count.
C12_WordCountAndEntries ==
    /\ word_count = SumTokens(Len(manuscript_entries))
    /\ \A n \in 1..Len(manuscript_entries) :
          /\ manuscript_entries[n].content # <<>>
          /\ manuscript_entries[n].page_number \in 1..(Len(canvas) + 1)
          /\ manuscript_entries[n].page_number = Len(canvas) + 1
             => pc = "aborted"
    /\ \A k \in 1..Len(canvas) :
          /\ \A i \in SourcedRegions(k) :
                LET name == text_regions[i].name
                    raw == RawContent(emitted[k].text_refs[name])
                IN  IF \E c \in 1..Len(raw) : raw[c] \notin Whitespace
                    THEN /\ Cardinality(EntriesOf(k, name)) = 1
                         /\ \A n \in EntriesOf(k, name) :
                               IsTrimOf(manuscript_entries[n].content, raw)
                    ELSE EntriesOf(k, name) = {}
          /\ \A i \in (1..Len(text_regions)) \ SourcedRegions(k) :
                EntriesOf(k, text_regions[i].name) = {}
          /\ Len(canvas[k].texts) =
                Cardinality(UNION { EntriesOf(k, text_regions[i].name) :
                                      i \in 1..Len(text_regions) })

\* a page drawn with " up we " and "go" (three words, two entries), and a
\* page whose only text is whitespace (no entry, nothing counted)
C12_Witness ==
    /\ pc = "done"
    /\ word_count = 3
    /\ Len(manuscript_entries) = 2
    /\ \E k \in 1..Len(canvas) :
          /\ SourcedRegions(k) # {}
          /\ canvas[k].texts = <<>>
    /\ \E k \in 1..Len(canvas) : Len(canvas[k].texts) = 2

-----------------------------------------------------------------------------
(* Claims about spreads (specification Spec) *)

\* the spread blocks with the default span the generator has reached
DefaultSpreads ==
    { b \in 1..Len(Pages) :
        /\ b <= gen.block
        /\ KindOf(Pages[b]) = SPREAD
        /\ "span" \notin DOMAIN Pages[b].m }

\* C13: a spread block with the default span reached on an even page
\* number n (2 in particular) yields exactly two PageSpecs, page n with
\* spread_side "left" and page n + 1 with "right", both with the same image
\* path, scale and offset; the right half's image is drawn one page width
\* to the left of the left half's, at the same height and the same size.
C13_DefaultSpreadHalves ==
    \A b \in DefaultSpreads :
        LET n == SumSpans(b - 1) + 1
        IN  n % 2 = 0
            => /\ gen.block = b => Len(emitted) \in {n, n + 1}
               /\ gen.block > b => Len(emitted) >= n + 1
               /\ n \in DOMAIN emitted
                  => /\ emitted[n].page_number = n
                     /\ emitted[n].sequence_index = 0
                     /\ emitted[n].spread_side = "left"
                     /\ emitted[n].slug = SlugOf(Pages[b])
               /\ n + 1 \in DOMAIN emitted
                  => /\ emitted[n + 1].page_number = n + 1
                     /\ emitted[n + 1].sequence_index = 1
                     /\ emitted[n + 1].spread_side = "right"
                     /\ emitted[n + 1].slug = SlugOf(Pages[b])
                     /\ emitted[n + 1].image_path = emitted[n].image_path
                     /\ emitted[n + 1].image_scale = emitted[n].image_scale
                     /\ emitted[n + 1].image_offset = emitted[n].image_offset
               /\ n + 2 \in DOMAIN emitted
                  => /\ gen.block > b
                     /\ emitted[n + 2].sequence_index = 0
               /\ (n + 1 \in DOMAIN canvas /\ HasImage(emitted[n]))
                  => /\ canvas[n].background.draw = "spread"
                     /\ canvas[n + 1].background.draw = "spread"
                     /\ canvas[n + 1].background.image = canvas[n].background.image
                     /\ canvas[n + 1].background.at.x =
                            canvas[n].background.at.x - page_width_pt
                     /\ canvas[n + 1].background.at.y = canvas[n].background.at.y
                     /\ canvas[n + 1].background.at.width =
                            canvas[n].background.at.width
                     /\ canvas[n + 1].background.at.height =
                            canvas[n].background.at.height

\* a default spread reached on page 2, both halves drawn, a third block
\* after it: the 1000 x 500 image at scale 1.5 with a one-inch offset is
\* 1944 x 972 points, at x = -468 on page 2 and x = -900 on page 3
C13_Witness ==
    /\ 2 \in DefaultSpreads
    /\ SumSpans(1) = 1
    /\ Len(canvas) >= 4
    /\ emitted[2].spread_side = "left"
    /\ emitted[3].spread_side = "right"
    /\ emitted[4].slug # emitted[3].slug
    /\ canvas[2].background.at = [x |-> -468, y |-> -162, width |-> 1944,
                                  height |-> 972]
    /\ canvas[3].background.at.x = -900

-----------------------------------------------------------------------------
(* Claims about directional text (specification SpecText) *)

\* the reference under test is a directional mapping
DirectionalTestRef ==
    /\ TestRef.t = "dict"
    /\ {"inline", "file", "library"} \cap DOMAIN TestRef.m = {}
    /\ {"left", "right"} \cap DOMAIN TestRef.m # {}

\* what resolving entry key of the reference under test gives for the
\* sub-page the generator stands at
EntryResolved(key) ==
    _coerce_text_source(TestRef.m[key], gen.index, SlugOf(Pages[2]), "top",
                        SpreadSide(KindOf(Pages[2]), gen.index),
                        using_library_pages, 1)

\* C14: a directional mapping gives what its entry for the page's
\* spread_side resolves to when it has that key, else what its "default"
\* entry resolves to when it has one, else no text; a page that is no
\* spread gets the "default" entry or no text.
C14_DirectionalCascade ==
    ( gen.block = 2 /\ DirectionalTestRef )
    => /\ error \notin { "RecursionError", "ValueError: Every page needs an image" }
       /\ Len(emitted) = gen.index + 2
       /\ LET pg == emitted[Len(emitted)]
              side == pg.spread_side
          IN  /\ pg.sequence_index = gen.index
              /\ side = (IF pg.kind # SPREAD THEN NoSide
                         ELSE IF gen.index = 0 THEN "left" ELSE "right")
              /\ pg.text_refs["top"] =
                    IF side # NoSide /\ side \in DOMAIN TestRef.m
                    THEN EntryResolved(side)
                    ELSE IF "default" \in DOMAIN TestRef.m
                    THEN EntryResolved("default")
                    ELSE NoText

\* {right: r, default: d} on a spread: the left page took "default" and the
\* right page took "right"
C14_Witness ==
    /\ gen.block = 2
    /\ TestRef = Dict([right |-> Inline(<<"r">>), default |-> Inline(<<"d">>)])
    /\ Len(emitted) >= 3
    /\ emitted[2].spread_side = "left"
    /\ emitted[2].text_refs["top"] = TextSource("inline", <<"d">>)
    /\ emitted[3].spread_side = "right"
    /\ emitted[3].text_refs["top"] = TextSource("inline", <<"r">>)

\* the same mapping on a page that is no spread: "default"
C14_PageTakesDefault ==
    /\ gen.block = 2
    /\ TestRef = Dict([right |-> Inline(<<"r">>), default |-> Inline(<<"d">>)])
    /\ Len(emitted) >= 2
    /\ emitted[2].kind = PAGE
    /\ emitted[2].text_refs["top"] = TextSource("inline", <<"d">>)

\* {left: null, default: d} on the left page of a spread: the key is
\* present, its entry is nothing, and "default" is not consulted; the right
\* page, whose key is absent, takes "default"
C14_NullSideIsNoText ==
    /\ gen.block = 2
    /\ TestRef = Dict([left |-> None, default |-> Inline(<<"d">>)])
    /\ Len(emitted) >= 3
    /\ emitted[2].spread_side = "left"
    /\ emitted[2].text_refs["top"] = NoText
    /\ emitted[3].text_refs["top"] = TextSource("inline", <<"d">>)

-----------------------------------------------------------------------------
(* Claims about the sides of a spread (specification Spec) *)

\* C15: every PageSpec the generator yields with spread_side "left" has an
\* even page_number, and every one with spread_side "right" an odd one,
\* whatever the kinds and the spans of the blocks.
C15_SpreadSideMatchesParity ==
    \A k \in DOMAIN emitted :
        /\ emitted[k].spread_side = "left" => emitted[k].page_number % 2 = 0
        /\ emitted[k].spread_side = "right" => emitted[k].page_number % 2 = 1

\* the left pages are even, and so is the right page of every spread
\* sub-page but the third and later ones of a span above two
C15_HoldsUpToSpanTwo ==
    \A k \in DOMAIN emitted :
        /\ emitted[k].spread_side = "left" => emitted[k].page_number % 2 = 0
        /\ (emitted[k].spread_side = "right" /\ emitted[k].sequence_index = 1)
           => emitted[k].page_number % 2 = 1

\* a spread of span 3 reached on page 2: its third sub-page is page 4,
\* a left-hand page, with spread_side "right"
C15_RightOnEvenPage ==
    /\ Len(canvas) >= 4
    /\ emitted[2].spread_side = "left"
    /\ emitted[4].sequence_index = 2
    /\ emitted[4].spread_side = "right"
    /\ emitted[4].page_number = 4
    /\ canvas[4].background.side = "right"

====
